---- MODULE Spec2Model ----
(***************************************************************************)
(* NK Solar Tech backend (server.js) and its data migration script         *)
(* (migrate-data.js), both held in src/migrate-data.js.                    *)
(*                                                                         *)
(* Conventions of the model                                                *)
(*  - a JS string is a sequence of tokens; '' is <<>>; a key that is       *)
(*    missing from an object (JS undefined, SQL NULL) is Undef;            *)
(*  - an image reference is the sequence of its '/'-separated segments,    *)
(*    so "/uploads/x.png" is <<"", "uploads", "x.png">>;                   *)
(*  - ids and usernames are plain strings, a missing one is NoVal;         *)
(*  - a remote row carries the fields of the local object under the local  *)
(*    names (whatsapp_link is whatsappLink, created_at is createdAt);      *)
(*  - req is the request a step handles, resp the answer it gets;          *)
(*    resp.failed is the set of store calls that failed while handling it, *)
(*    seen what the request met: whether its session was logged in, and    *)
(*    how many records of the collection carried the id it names.          *)
(***************************************************************************)
EXTENDS Integers, Sequences, FiniteSets, TLC

VARIABLES useSupabase, users, products, courses, files, session, req, resp, seen, mig,
          inflight

vars == <<useSupabase, users, products, courses, files, session, req, resp, seen, mig,
          inflight>>

store == <<products, courses, files>>

(***************************************************************************)
(* Bounds of the model                                                     *)
(***************************************************************************)
MaxProducts == 2
MaxCourses == 1

(***************************************************************************)
(* JS values                                                               *)
(***************************************************************************)
NoVal == "undefined"
Undef == <<"undefined">>
Truthy(v) == v # Undef /\ v # <<>>
OrElse(v, d) == IF Truthy(v) THEN v ELSE d

RECURSIVE SelectSeq2(_, _)
\* Array.prototype.filter with the test given as a set of accepted elements
SelectSeq2(s, ok) ==
    IF s = <<>> THEN <<>>
    ELSE IF Head(s) \in ok THEN <<Head(s)>> \o SelectSeq2(Tail(s), ok)
         ELSE SelectSeq2(Tail(s), ok)

Range(s) == {s[i] : i \in 1..Len(s)}
WithId(s, id) == {r \in Range(s) : r.id = id}
\* Array.prototype.findIndex(p => p.id === id); 0 stands for -1
FindIndex(s, id) ==
    IF \E i \in 1..Len(s) : s[i].id = id
    THEN CHOOSE i \in 1..Len(s) : s[i].id = id /\ \A j \in 1..(i - 1) : s[j].id # id
    ELSE 0

(***************************************************************************)
(* Users and sessions                                                      *)
(***************************************************************************)
Sessions == {"s1"}
SeedUsers ==
    << [id |-> "u1", username |-> "admin", password |-> "pw1"],
       [id |-> "u2", username |-> "staff", password |-> "pw2"] >>
Creds ==
    { [username |-> "admin", password |-> "pw1"],
      [username |-> "staff", password |-> "pw2"],
      [username |-> "admin", password |-> "pw2"],
      [username |-> "ghost", password |-> "pw1"] }
EmptySession == [userId |-> NoVal, username |-> NoVal]

\* requireAuth's test: req.session && req.session.userId
RequireAuth_open(s) == TRUE
RequireAuth(s) == session[s].userId # NoVal

\* users.find(u => u.username === username && u.password === password)
\* (the result is <<>> for undefined, <<u>> for the user found)
LocalFindUser(us, cred) ==
    LET hit == {i \in 1..Len(us) :
                  us[i].username = cred.username /\ us[i].password = cred.password}
    IN  IF hit = {} THEN <<>> ELSE <<us[CHOOSE i \in hit : \A j \in hit : i <= j]>>

\* from('users').select('*').eq('username', username).limit(1): the data array
RemoteSelectUser(us, username) ==
    LET hit == {i \in 1..Len(us) : us[i].username = username}
    IN  IF hit = {} THEN <<>> ELSE <<us[CHOOSE i \in hit : \A j \in hit : i <= j]>>

\* req.session.destroy()
SessionDestroy_keep(sess, s) == sess
SessionDestroy(sess, s) == [sess EXCEPT ![s] = EmptySession]

(***************************************************************************)
(* Responses                                                               *)
(***************************************************************************)
\* the outcomes of a store call: it can fail only where it is made
Fails(called) == IF called THEN BOOLEAN ELSE {FALSE}
RawMessage(call) == <<"store error", call>>
Reply(status, success, error, data, failed) ==
    [status |-> status, success |-> success, error |-> error, data |-> data,
     failed |-> failed]
Unauthorized == Reply(401, FALSE, <<"Unauthorized. Please login.">>, NoVal, {})
NotFound(failed) == Reply(404, FALSE, <<"Not found">>, NoVal, failed)
ServerError(call, failed) == Reply(500, FALSE, RawMessage(call), NoVal, failed)
Request(route, s, id, body, file) ==
    [route |-> route, sess |-> s, id |-> id, body |-> body, file |-> file]
\* what the request found: whether its session was logged in, how many records
\* had its id, and the image of the record list.find() gives for the id
Seen(s, list, id) ==
    [authed |-> session[s].userId # NoVal,
     hit |-> Cardinality({i \in 1..Len(list) : list[i].id = id}),
     image |-> IF FindIndex(list, id) = 0 THEN Undef
               ELSE list[FindIndex(list, id)].image]

(***************************************************************************)
(* Auth routes                                                             *)
(***************************************************************************)
InvalidCredentials(failed) ==
    Reply(401, FALSE, <<"Invalid credentials">>, NoVal, failed)
LoginOk == Reply(200, TRUE, <<>>, <<"Login successful">>, {})

\* app.post('/api/login')
Login(s, cred) ==
    /\ req' = Request("POST /login", s, NoVal, cred, FALSE)
    /\ seen' = Seen(s, <<>>, NoVal)
    /\ IF useSupabase
       THEN \E error \in BOOLEAN :
              LET data == RemoteSelectUser(users, cred.username)
              IN  IF error \/ Len(data) = 0 \/ data[1].password # cred.password
                  THEN /\ resp' = InvalidCredentials(IF error THEN {"select"} ELSE {})
                       /\ UNCHANGED session
                  ELSE /\ session' = [session EXCEPT ![s] =
                              [userId |-> data[1].id, username |-> data[1].username]]
                       /\ resp' = LoginOk
       ELSE LET user == LocalFindUser(users, cred)
            IN  IF user # <<>>
                THEN /\ session' = [session EXCEPT ![s] =
                            [userId |-> user[1].id, username |-> user[1].username]]
                     /\ resp' = LoginOk
                ELSE /\ resp' = InvalidCredentials({})
                     /\ UNCHANGED session
    /\ UNCHANGED <<useSupabase, inflight, users, store, mig>>

\* app.post('/api/logout')
Logout(s) ==
    /\ req' = Request("POST /logout", s, NoVal, NoVal, FALSE)
    /\ seen' = Seen(s, <<>>, NoVal)
    /\ session' = SessionDestroy(session, s)
    /\ resp' = Reply(200, TRUE, <<>>, <<"Logged out successfully">>, {})
    /\ UNCHANGED <<useSupabase, inflight, users, store, mig>>

\* app.get('/api/auth/status')
AuthStatus(s) ==
    /\ req' = Request("GET /auth/status", s, NoVal, NoVal, FALSE)
    /\ seen' = Seen(s, <<>>, NoVal)
    /\ resp' = IF session[s].userId # NoVal
               THEN Reply(200, TRUE, <<>>,
                          [authenticated |-> TRUE, username |-> session[s].username], {})
               ELSE Reply(200, TRUE, <<>>,
                          [authenticated |-> FALSE, username |-> NoVal], {})
    /\ UNCHANGED <<useSupabase, inflight, users, store, session, mig>>

(***************************************************************************)
(* Request inputs                                                          *)
(***************************************************************************)
TitleA == <<"P", " ", "A">>
TitleB == <<"K", "&", "B">>
LocalImg == <<"", "uploads", "x.png">>
OtherImg == <<"", "uploads", "y.png">>
\* `/uploads/${req.file.filename}`: multer.memoryStorage() sets no filename
NoNameImg == <<"", "uploads", "undefined">>
ProductBodies ==
    { [title |-> TitleA, price |-> Undef, description |-> Undef,
       whatsappLink |-> Undef, image |-> Undef],
      [title |-> TitleB, price |-> <<"1", "0">>, description |-> <<"d">>,
       whatsappLink |-> <<"L">>, image |-> LocalImg] }
CourseBodies ==
    { [title |-> TitleA, date |-> Undef, comments |-> Undef, description |-> Undef,
       content |-> Undef, image |-> Undef],
      [title |-> TitleB, date |-> <<"Jan 1, 2025">>, comments |-> <<"3">>,
       description |-> <<"d">>, content |-> <<"c">>, image |-> LocalImg] }
\* `prod-${uuidv4().substring(0, 8)}` and `course-${...}` for the uuids drawn
ProdIds == {"prod-1", "prod-2"}
CourseIds == {"course-1"}
\* `${fileId}${ext}` for the uuids drawn and the extension of the upload
FileNames == {"f1.png"}
\* new Date().toISOString()
Times == {<<"t1">>}
\* the instant the seeded records were created at, before the server started
SeedTime == <<"t0">>
TimeRank(t) == IF t = SeedTime THEN 0 ELSE 1

\* encodeURIComponent, on the characters the titles use
EncodeChar(c) ==
    CASE c = " " -> "%20"
      [] c = "&" -> "%26"
      [] OTHER -> c
RECURSIVE EncodeURIComponent(_)
EncodeURIComponent(str) ==
    IF str = <<>> THEN <<>>
    ELSE <<EncodeChar(Head(str))>> \o EncodeURIComponent(Tail(str))
WaPrefix == <<"https://wa.me/233501234567?text=Hello%20NK%20Solar%2C%20I%20want%20to%20buy%20">>
DefaultLink(title) == WaPrefix \o EncodeURIComponent(title)

\* toLocaleDateString('en-US', {month: 'short', day: 'numeric', year: 'numeric'})
FormatDate(now) == <<"Mon D, YYYY of", now[1]>>
\* parseInt(comments) || 0, on one-digit strings
DigitVal(c) ==
    CASE c = "1" -> 1 [] c = "2" -> 2 [] c = "3" -> 3 [] OTHER -> 0
ParseIntOrZero(v) == IF v # Undef /\ Len(v) = 1 THEN DigitVal(v[1]) ELSE 0

(***************************************************************************)
(* Local file store and remote store                                       *)
(***************************************************************************)
\* readData / writeData: the file holds the array as written
ReadData(file) == file

\* oldImage.startsWith('/uploads/')
StartsWithUploads(img) == Len(img) >= 3 /\ img[1] = "" /\ img[2] = "uploads"
\* path.join on '/'-separated segments: empty and '.' segments are dropped and
\* a '..' segment takes back the segment before it
RECURSIVE Normalize(_, _)
Normalize(segs, acc) ==
    IF segs = <<>> THEN acc
    ELSE IF Head(segs) \in {"", "."} THEN Normalize(Tail(segs), acc)
    ELSE IF Head(segs) = ".."
         THEN Normalize(Tail(segs),
                        IF acc = <<>> \/ acc[Len(acc)] = ".." THEN Append(acc, "..")
                        ELSE SubSeq(acc, 1, Len(acc) - 1))
    ELSE Normalize(Tail(segs), Append(acc, Head(segs)))
\* path.join(__dirname, 'public', image), as a path below __dirname
PathJoin(img) == Normalize(<<"public">> \o img, <<>>)
\* fs.unlinkSync(path.join(__dirname, 'public', image)) inside try {} catch {}:
\* the file is gone afterwards; the error for a path that names no file is
\* swallowed
Unlink_keep(fs, img) == fs
Unlink(fs, img) == fs \ {PathJoin(img)}

\* getPublicUrl(filePath).publicUrl, split at '/'
PublicUrl(filePath) == <<"https:", "", "cdn", "product-images">> \o filePath
\* imageUrl.split('/').slice(-2)
LastTwo(parts) ==
    IF Len(parts) <= 2 THEN parts ELSE SubSeq(parts, Len(parts) - 1, Len(parts))
\* deleteFromSupabase: a failure of remove() is swallowed
DeleteFromSupabase(fs, imageUrl, error) ==
    IF ~Truthy(imageUrl) \/ error THEN fs ELSE fs \ {LastTwo(imageUrl)}

\* select('*').eq('id', id).single(): <<>> for data null
SelectSingle(table, id, error) ==
    LET hit == {i \in 1..Len(table) : table[i].id = id}
    IN  IF error \/ Cardinality(hit) # 1 THEN <<>> ELSE <<table[CHOOSE i \in hit : TRUE]>>

\* delete().eq('id', id)
DeleteEq(table, id) == SelectSeq2(table, {r \in Range(table) : r.id # id})
\* products.filter(p => p.id !== id)
FilterOut_first(list, id) == IF list = <<>> THEN <<>> ELSE Tail(list)
FilterOut(list, id) == SelectSeq2(list, {r \in Range(list) : r.id # id})

\* select('*').order('created_at', {ascending: false}): any order the sort allows
Ordered(table) ==
    LET n == Len(table)
    IN  {q \in [1..n -> Range(table)] :
           /\ \A r \in Range(table) : \E i \in 1..n : q[i] = r
           /\ \A i \in 1..n : \A j \in i..n :
                TimeRank(q[i].createdAt) >= TimeRank(q[j].createdAt)}

(***************************************************************************)
(* Products routes                                                         *)
(***************************************************************************)
\* the newProduct literal of POST /products; the remote insert passes the same
\* values under the column names
NewProduct(id, body, imageUrl, now) ==
    [id |-> id,
     title |-> body.title,
     price |-> OrElse(body.price, <<>>),
     description |-> OrElse(body.description, <<>>),
     image |-> imageUrl,
     whatsappLink |-> OrElse(body.whatsappLink, DefaultLink(body.title)),
     createdAt |-> now,
     updatedAt |-> Undef]

\* products.push(newProduct)
Push(list, r) == Append(list, r)

\* app.get('/api/products')
GetProducts(s) ==
    /\ req' = Request("GET /products", s, NoVal, NoVal, FALSE)
    /\ seen' = Seen(s, <<>>, NoVal)
    /\ IF useSupabase
       THEN \E error \in BOOLEAN :
              IF error
              THEN resp' = ServerError("select", {"select"})
              ELSE \E data \in Ordered(products) :
                     resp' = Reply(200, TRUE, <<>>, data, {})
       ELSE resp' = Reply(200, TRUE, <<>>, ReadData(products), {})
    /\ UNCHANGED <<useSupabase, inflight, users, store, session, mig>>

\* app.post('/api/products')
PostProducts(s, body, hasFile) ==
    /\ req' = Request("POST /products", s, NoVal, body, hasFile)
    /\ seen' = Seen(s, <<>>, NoVal)
    /\ IF ~RequireAuth(s)
       THEN resp' = Unauthorized /\ UNCHANGED store
       ELSE \E id \in ProdIds, now \in Times :
            IF useSupabase
            THEN \E fname \in FileNames, upErr \in Fails(hasFile), insErr \in BOOLEAN :
                 LET filePath == <<"products", fname>>
                     upFails == upErr \/ filePath \in files
                     imageUrl == IF hasFile THEN PublicUrl(filePath)
                                 ELSE OrElse(body.image, <<>>)
                     row == NewProduct(id, body, imageUrl, now)
                 IN  IF hasFile /\ upFails
                     THEN /\ resp' = ServerError("upload", {"upload"})
                          /\ UNCHANGED store
                     ELSE /\ files' = IF hasFile THEN files \cup {filePath} ELSE files
                          /\ UNCHANGED courses
                          /\ IF insErr \/ WithId(products, id) # {}
                             THEN /\ resp' = ServerError("insert", {"insert"})
                                  /\ UNCHANGED products
                             ELSE /\ Len(products) < MaxProducts
                                  /\ products' = Append(products, row)
                                  /\ resp' = Reply(200, TRUE, <<>>, row, {})
            ELSE \E wErr \in BOOLEAN :
                 LET newProduct == NewProduct(id, body, OrElse(body.image, <<>>), now)
                 IN  IF wErr
                     THEN /\ resp' = ServerError("write", {"write"})
                          /\ UNCHANGED store
                     ELSE /\ Len(products) < MaxProducts
                          /\ products' = Push(ReadData(products), newProduct)
                          /\ resp' = Reply(200, TRUE, <<>>, newProduct, {})
                          /\ UNCHANGED <<courses, files>>
    /\ UNCHANGED <<useSupabase, inflight, users, session, mig>>

\* update({title, price, ...}): a key whose value is undefined is not sent, so the
\* column keeps its value
Column(v, old) == IF v = Undef THEN old ELSE v
RemoteUpdate(row, body, imageUrl, now) ==
    [row EXCEPT !.title = Column(body.title, @),
                !.price = Column(body.price, @),
                !.description = Column(body.description, @),
                !.image = Column(imageUrl, @),
                !.whatsappLink = Column(body.whatsappLink, @),
                !.updatedAt = now]

\* the local branch of PUT: products[index].image = ..., then the spread
LocalUpdate_stamp(old, body, hasFile, now) ==
    [old EXCEPT !.image = IF hasFile THEN NoNameImg ELSE @,
                !.title = body.title,
                !.price = body.price,
                !.description = body.description,
                !.whatsappLink = body.whatsappLink,
                !.createdAt = now,
                !.updatedAt = now]
LocalUpdate(old, body, hasFile, now) ==
    [old EXCEPT !.image = IF hasFile THEN NoNameImg ELSE @,
                !.title = body.title,
                !.price = body.price,
                !.description = body.description,
                !.whatsappLink = body.whatsappLink,
                !.updatedAt = now]

\* app.put('/api/products/:id')
PutProducts(s, id, body, hasFile) ==
    /\ req' = Request("PUT /products/:id", s, id, body, hasFile)
    /\ seen' = Seen(s, products, id)
    /\ IF ~RequireAuth(s)
       THEN resp' = Unauthorized /\ UNCHANGED store
       ELSE \E now \in Times :
            IF useSupabase
            THEN \E selErr \in BOOLEAN, rmErr \in Fails(hasFile), fname \in FileNames,
                    upErr \in Fails(hasFile), updErr \in BOOLEAN :
                 LET existing == SelectSingle(products, id, selErr)
                     sel == IF selErr THEN {"select"} ELSE {}
                 IN  IF existing = <<>>
                     THEN resp' = NotFound(sel) /\ UNCHANGED store
                     ELSE
                 LET old == existing[1].image
                     removes == hasFile /\ Truthy(old)
                     rm == IF removes /\ rmErr THEN {"remove"} ELSE {}
                     afterRm == IF removes THEN DeleteFromSupabase(files, old, rmErr)
                                ELSE files
                     filePath == <<"products", fname>>
                     upFails == upErr \/ filePath \in afterRm
                     imageUrl == IF hasFile THEN PublicUrl(filePath) ELSE old
                     i == FindIndex(products, id)
                     row == RemoteUpdate(products[i], body, imageUrl, now)
                 IN  IF hasFile /\ upFails
                     THEN /\ resp' = ServerError("upload", rm \cup {"upload"})
                          /\ files' = afterRm
                          /\ UNCHANGED <<products, courses>>
                     ELSE /\ files' = IF hasFile THEN afterRm \cup {filePath} ELSE afterRm
                          /\ UNCHANGED courses
                          /\ IF updErr
                             THEN /\ resp' = ServerError("update", rm \cup {"update"})
                                  /\ UNCHANGED products
                             ELSE /\ products' = [products EXCEPT ![i] = row]
                                  /\ resp' = Reply(200, TRUE, <<>>, row, rm)
            ELSE \E wErr \in BOOLEAN :
                 LET list == ReadData(products)
                     index == FindIndex(list, id)
                 IN  IF index = 0
                     THEN resp' = NotFound({}) /\ UNCHANGED store
                     ELSE
                 LET oldImage == list[index].image
                     merged == LocalUpdate(list[index], body, hasFile, now)
                 IN  /\ files' = IF hasFile /\ Truthy(oldImage)
                                    /\ StartsWithUploads(oldImage)
                                 THEN Unlink(files, oldImage) ELSE files
                     /\ UNCHANGED courses
                     /\ IF wErr
                        THEN /\ resp' = ServerError("write", {"write"})
                             /\ UNCHANGED products
                        ELSE /\ products' = [list EXCEPT ![index] = merged]
                             /\ resp' = Reply(200, TRUE, <<>>, merged, {})
    /\ UNCHANGED <<useSupabase, inflight, users, session, mig>>

\* app.delete('/api/products/:id')
DeleteProducts(s, id) ==
    /\ req' = Request("DELETE /products/:id", s, id, NoVal, FALSE)
    /\ seen' = Seen(s, products, id)
    /\ IF ~RequireAuth(s)
       THEN resp' = Unauthorized /\ UNCHANGED store
       ELSE IF useSupabase
            THEN \E selErr \in BOOLEAN, rmErr \in BOOLEAN, delErr \in BOOLEAN :
                 LET product == SelectSingle(products, id, selErr)
                     removes == product # <<>> /\ Truthy(product[1].image)
                     failed == (IF selErr THEN {"select"} ELSE {})
                               \cup (IF removes /\ rmErr THEN {"remove"} ELSE {})
                 IN  /\ files' = IF removes
                                 THEN DeleteFromSupabase(files, product[1].image, rmErr)
                                 ELSE files
                     /\ UNCHANGED courses
                     /\ IF delErr
                        THEN /\ resp' = ServerError("delete", failed \cup {"delete"})
                             /\ UNCHANGED products
                        ELSE /\ products' = DeleteEq(products, id)
                             /\ resp' = Reply(200, TRUE, <<>>, <<"Deleted">>, failed)
            ELSE \E wErr \in BOOLEAN :
                 LET list == ReadData(products)
                     index == FindIndex(list, id)
                     unlinks == index # 0 /\ Truthy(list[index].image)
                                /\ StartsWithUploads(list[index].image)
                 IN  /\ files' = IF unlinks THEN Unlink(files, list[index].image)
                                 ELSE files
                     /\ UNCHANGED courses
                     /\ IF wErr
                        THEN /\ resp' = ServerError("write", {"write"})
                             /\ UNCHANGED products
                        ELSE /\ products' = FilterOut(list, id)
                             /\ resp' = Reply(200, TRUE, <<>>, <<"Deleted">>, {})
    /\ UNCHANGED <<useSupabase, inflight, users, session, mig>>

(***************************************************************************)
(* Courses routes                                                          *)
(***************************************************************************)
\* the newCourse literal of POST /courses
NewCourse(id, body, imageUrl, now) ==
    [id |-> id,
     title |-> body.title,
     date |-> OrElse(body.date, FormatDate(now)),
     comments |-> ParseIntOrZero(body.comments),
     description |-> OrElse(body.description, <<>>),
     content |-> OrElse(body.content, <<>>),
     image |-> imageUrl,
     createdAt |-> now]
\* the row of the remote insert: description and content go in as received
CourseRow(id, body, imageUrl, now) ==
    [NewCourse(id, body, imageUrl, now) EXCEPT !.description = body.description,
                                               !.content = body.content]

\* app.get('/api/courses')
GetCourses(s) ==
    /\ req' = Request("GET /courses", s, NoVal, NoVal, FALSE)
    /\ seen' = Seen(s, <<>>, NoVal)
    /\ IF useSupabase
       THEN \E error \in BOOLEAN :
              IF error
              THEN resp' = ServerError("select", {"select"})
              ELSE \E data \in Ordered(courses) :
                     resp' = Reply(200, TRUE, <<>>, data, {})
       ELSE resp' = Reply(200, TRUE, <<>>, ReadData(courses), {})
    /\ UNCHANGED <<useSupabase, inflight, users, store, session, mig>>

\* app.post('/api/courses')
PostCourses(s, body, hasFile) ==
    /\ req' = Request("POST /courses", s, NoVal, body, hasFile)
    /\ seen' = Seen(s, <<>>, NoVal)
    /\ IF ~RequireAuth(s)
       THEN resp' = Unauthorized /\ UNCHANGED store
       ELSE \E id \in CourseIds, now \in Times :
            IF useSupabase
            THEN \E fname \in FileNames, upErr \in Fails(hasFile), insErr \in BOOLEAN :
                 LET filePath == <<"products", fname>>
                     upFails == upErr \/ filePath \in files
                     imageUrl == IF hasFile THEN PublicUrl(filePath)
                                 ELSE OrElse(body.image, <<>>)
                     row == CourseRow(id, body, imageUrl, now)
                 IN  IF hasFile /\ upFails
                     THEN /\ resp' = ServerError("upload", {"upload"})
                          /\ UNCHANGED store
                     ELSE /\ files' = IF hasFile THEN files \cup {filePath} ELSE files
                          /\ UNCHANGED products
                          /\ IF insErr \/ WithId(courses, id) # {}
                             THEN /\ resp' = ServerError("insert", {"insert"})
                                  /\ UNCHANGED courses
                             ELSE /\ Len(courses) < MaxCourses
                                  /\ courses' = Append(courses, row)
                                  /\ resp' = Reply(200, TRUE, <<>>, row, {})
            ELSE \E wErr \in BOOLEAN :
                 LET newCourse == NewCourse(id, body, OrElse(body.image, <<>>), now)
                 IN  IF wErr
                     THEN /\ resp' = ServerError("write", {"write"})
                          /\ UNCHANGED store
                     ELSE /\ Len(courses) < MaxCourses
                          /\ courses' = Push(ReadData(courses), newCourse)
                          /\ resp' = Reply(200, TRUE, <<>>, newCourse, {})
                          /\ UNCHANGED <<products, files>>
    /\ UNCHANGED <<useSupabase, inflight, users, session, mig>>

\* app.delete('/api/courses/:id')
DeleteCourses(s, id) ==
    /\ req' = Request("DELETE /courses/:id", s, id, NoVal, FALSE)
    /\ seen' = Seen(s, courses, id)
    /\ IF ~RequireAuth(s)
       THEN resp' = Unauthorized /\ UNCHANGED store
       ELSE IF useSupabase
            THEN \E selErr \in BOOLEAN, rmErr \in BOOLEAN, delErr \in BOOLEAN :
                 LET course == SelectSingle(courses, id, selErr)
                     removes == course # <<>> /\ Truthy(course[1].image)
                     failed == (IF selErr THEN {"select"} ELSE {})
                               \cup (IF removes /\ rmErr THEN {"remove"} ELSE {})
                 IN  /\ files' = IF removes
                                 THEN DeleteFromSupabase(files, course[1].image, rmErr)
                                 ELSE files
                     /\ UNCHANGED products
                     /\ IF delErr
                        THEN /\ resp' = ServerError("delete", failed \cup {"delete"})
                             /\ UNCHANGED courses
                        ELSE /\ courses' = DeleteEq(courses, id)
                             /\ resp' = Reply(200, TRUE, <<>>, <<"Deleted">>, failed)
            ELSE \E wErr \in BOOLEAN :
                 LET list == ReadData(courses)
                     index == FindIndex(list, id)
                     unlinks == index # 0 /\ Truthy(list[index].image)
                                /\ StartsWithUploads(list[index].image)
                 IN  /\ files' = IF unlinks THEN Unlink(files, list[index].image)
                                 ELSE files
                     /\ UNCHANGED products
                     /\ IF wErr
                        THEN /\ resp' = ServerError("write", {"write"})
                             /\ UNCHANGED courses
                        ELSE /\ courses' = FilterOut(list, id)
                             /\ resp' = Reply(200, TRUE, <<>>, <<"Deleted">>, {})
    /\ UNCHANGED <<useSupabase, inflight, users, session, mig>>

(***************************************************************************)
(* The server                                                              *)
(***************************************************************************)
MigIdle == [phase |-> "off"]

\* the requests the server is handling: none yet
Reqs == {"r1", "r2"}
IdleRequest ==
    [phase |-> "idle", route |-> NoVal, sess |-> NoVal, id |-> NoVal, body |-> NoVal,
     early |-> <<>>, status |-> 0, product |-> NoVal]
NoneInFlight == [r \in Reqs |-> IdleRequest]

\* the product the store holds when the server starts
SeedProduct ==
    [id |-> "prod-1", title |-> TitleB, price |-> <<"5">>, description |-> <<>>,
     image |-> <<>>, whatsappLink |-> DefaultLink(TitleB), createdAt |-> SeedTime,
     updatedAt |-> Undef]

\* server start: the mode is fixed by the environment; no one is logged in; the
\* store holds one product and no course; local mode finds two files under
\* public/uploads
Init ==
    /\ useSupabase \in BOOLEAN
    /\ users = SeedUsers
    /\ products = <<SeedProduct>>
    /\ courses = <<>>
    /\ files = IF useSupabase THEN {} ELSE {PathJoin(LocalImg), PathJoin(OtherImg)}
    /\ session = [s \in Sessions |-> EmptySession]
    /\ req = Request("none", NoVal, NoVal, NoVal, FALSE)
    /\ resp = Reply(0, FALSE, <<>>, NoVal, {})
    /\ seen = [authed |-> FALSE, hit |-> 0, image |-> Undef]
    /\ mig = MigIdle
    /\ inflight = NoneInFlight

\* the requests clients send: any route, with a fully filled body
FullProductBodies == {b \in ProductBodies : b.price # Undef}
FullCourseBodies == {b \in CourseBodies : b.date # Undef}
Next ==
    \/ \E s \in Sessions, cred \in Creds : Login(s, cred)
    \/ \E s \in Sessions : Logout(s)
    \/ \E s \in Sessions : AuthStatus(s)
    \/ \E s \in Sessions : GetProducts(s)
    \/ \E s \in Sessions, body \in FullProductBodies, hasFile \in BOOLEAN :
         PostProducts(s, body, hasFile)
    \/ \E s \in Sessions, id \in ProdIds, body \in FullProductBodies, hasFile \in BOOLEAN :
         PutProducts(s, id, body, hasFile)
    \/ \E s \in Sessions, id \in ProdIds : DeleteProducts(s, id)
    \/ \E s \in Sessions : GetCourses(s)
    \/ \E s \in Sessions, body \in FullCourseBodies, hasFile \in BOOLEAN :
         PostCourses(s, body, hasFile)
    \/ \E s \in Sessions, id \in CourseIds : DeleteCourses(s, id)

Spec == Init /\ [][Next]_vars

\* the requests of the admin's client while it manages the products, with and
\* without the optional fields
AdminCreds == {cred \in Creds : cred.username = "admin"}
NextProducts ==
    \/ \E s \in Sessions, cred \in AdminCreds : Login(s, cred)
    \/ \E s \in Sessions : GetProducts(s)
    \/ \E s \in Sessions, body \in ProductBodies, hasFile \in BOOLEAN :
         PostProducts(s, body, hasFile)
    \/ \E s \in Sessions, id \in ProdIds, body \in ProductBodies, hasFile \in BOOLEAN :
         PutProducts(s, id, body, hasFile)
    \/ \E s \in Sessions, id \in ProdIds : DeleteProducts(s, id)

SpecProducts == Init /\ [][NextProducts]_vars

\* the requests of the admin's client while it creates products with the image
\* references a body can carry, and deletes products
DotDotImg == <<"", "uploads", "..", "uploads", "y.png">>
ExternalImg == <<"https:", "", "cdn", "a.png">>
ImageBodies ==
    {[title |-> TitleA, price |-> <<"5">>, description |-> <<"d">>,
      whatsappLink |-> <<"L">>, image |-> img] :
       img \in {Undef, LocalImg, DotDotImg, ExternalImg}}
NextImages ==
    \/ \E s \in Sessions, cred \in AdminCreds : Login(s, cred)
    \/ \E s \in Sessions, body \in ImageBodies, hasFile \in BOOLEAN :
         PostProducts(s, body, hasFile)
    \/ \E s \in Sessions, id \in ProdIds : DeleteProducts(s, id)

SpecImages == Init /\ [][NextImages]_vars

(***************************************************************************)
(* Local-file mode with requests in flight                                 *)
(*                                                                         *)
(* Node runs one callback at a time and a callback runs until it returns   *)
(* or awaits. A request is taken in turns: it arrives; requireAuth runs    *)
(* and, on a route without upload middleware, calls the handler in the     *)
(* same turn; on POST /products multer reads the body first and the        *)
(* handler runs in a later turn. In local mode the handler has no await:   *)
(* readData, the change of the array, writeData and the reply are one      *)
(* turn. inflight[r].phase is the place request r is at; early is what     *)
(* products.json held when r arrived.                                      *)
(***************************************************************************)
\* const products = readData('products.json'), in the handler's turn
HandlerRead_early(r) == inflight[r].early
HandlerRead(r) == ReadData(products)

\* the request reaches the server
Arrive(r, s, route, id, body) ==
    /\ ~useSupabase
    /\ inflight[r].phase = "idle"
    /\ inflight' = [inflight EXCEPT ![r] =
                      [@ EXCEPT !.phase = "received", !.route = route, !.sess = s,
                                !.id = id, !.body = body, !.early = ReadData(products)]]
    /\ UNCHANGED <<useSupabase, users, store, session, req, resp, seen, mig>>

\* the local branch of app.delete('/api/products/:id')
LocalDelete(r) ==
    \E wErr \in BOOLEAN :
      LET list == HandlerRead(r)
          index == FindIndex(list, inflight[r].id)
          unlinks == index # 0 /\ Truthy(list[index].image)
                     /\ StartsWithUploads(list[index].image)
      IN  /\ files' = IF unlinks THEN Unlink(files, list[index].image) ELSE files
          /\ products' = IF wErr THEN products ELSE FilterOut(list, inflight[r].id)
          /\ inflight' = [inflight EXCEPT ![r] =
                            [@ EXCEPT !.phase = "answered",
                                      !.status = IF wErr THEN 500 ELSE 200]]

\* requireAuth; then upload.single('image') starts to read the body of a POST,
\* and the handler of a DELETE is called at once
Admit(r) ==
    /\ inflight[r].phase = "received"
    /\ IF ~RequireAuth(inflight[r].sess)
       THEN /\ inflight' = [inflight EXCEPT ![r] =
                              [@ EXCEPT !.phase = "answered", !.status = 401]]
            /\ UNCHANGED <<products, files>>
       ELSE IF inflight[r].route = "POST /products"
            THEN /\ inflight' = [inflight EXCEPT ![r] = [@ EXCEPT !.phase = "parsing"]]
                 /\ UNCHANGED <<products, files>>
            ELSE LocalDelete(r)
    /\ UNCHANGED <<useSupabase, users, courses, session, req, resp, seen, mig>>

\* the local branch of app.post('/api/products'), once multer has the body
HandlePost(r) ==
    /\ inflight[r].phase = "parsing"
    /\ \E id \in ProdIds, now \in Times, wErr \in BOOLEAN :
         LET body == inflight[r].body
             newProduct == NewProduct(id, body, OrElse(body.image, <<>>), now)
             list == HandlerRead(r)
         IN  IF wErr
             THEN /\ inflight' = [inflight EXCEPT ![r] =
                                    [@ EXCEPT !.phase = "answered", !.status = 500]]
                  /\ UNCHANGED products
             ELSE /\ Len(list) < MaxProducts
                  /\ products' = Push(list, newProduct)
                  /\ inflight' = [inflight EXCEPT ![r] =
                                    [@ EXCEPT !.phase = "answered", !.status = 200,
                                              !.product = newProduct]]
    /\ UNCHANGED <<useSupabase, users, courses, files, session, req, resp, seen, mig>>

\* local mode; products.json is absent or holds one product
InitRace ==
    /\ useSupabase = FALSE
    /\ users = SeedUsers
    /\ products \in {<<>>, <<SeedProduct>>}
    /\ courses = <<>>
    /\ files = {PathJoin(LocalImg), PathJoin(OtherImg)}
    /\ session = [s \in Sessions |-> EmptySession]
    /\ req = Request("none", NoVal, NoVal, NoVal, FALSE)
    /\ resp = Reply(0, FALSE, <<>>, NoVal, {})
    /\ seen = [authed |-> FALSE, hit |-> 0, image |-> Undef]
    /\ mig = MigIdle
    /\ inflight = NoneInFlight

NextRace ==
    \/ \E s \in Sessions, cred \in AdminCreds : Login(s, cred)
    \/ \E r \in Reqs, s \in Sessions, body \in ProductBodies :
         Arrive(r, s, "POST /products", NoVal, body)
    \/ \E r \in Reqs, s \in Sessions, id \in ProdIds :
         Arrive(r, s, "DELETE /products/:id", id, NoVal)
    \/ \E r \in Reqs : Admit(r)
    \/ \E r \in Reqs : HandlePost(r)

SpecRace == InitRace /\ [][NextRace]_vars


(***************************************************************************)
(* The migration script (migrate-data.js)                                  *)
(*                                                                         *)
(* mig.phase is the place the process is at: "idle" before a run, then the *)
(* collection whose block runs, "banner" before the last console.log,      *)
(* "done" once migrate() has resolved, "exit" after process.exit(1).       *)
(* mig.failed, mig.loopFailed, mig.continued and mig.after record what     *)
(* happened: an upsert failed in this or an earlier run, in the loop under *)
(* way, an upsert was made in a loop after one of its upserts had failed,  *)
(* and the remote collections as the first run left them.                  *)
(***************************************************************************)
MaxRuns == 2
MaxFileLen == 2
\* a numeric field the JSON record does not carry
NoNum == -1
MigTimes == {<<"t1">>, <<"t2">>}
Colls == <<"users", "products", "courses">>

Missing == [present |-> FALSE, rows |-> <<>>]
File(rows) == [present |-> TRUE, rows |-> rows]
MigUser ==
    [id |-> "u1", username |-> "admin", password |-> "pw1", role |-> Undef,
     createdAt |-> Undef]
MigProducts ==
    { [id |-> "prod-1", title |-> TitleA, price |-> Undef, description |-> Undef,
       image |-> Undef, whatsappLink |-> Undef, createdAt |-> Undef],
      [id |-> "prod-1", title |-> TitleB, price |-> <<"5">>, description |-> <<"d">>,
       image |-> LocalImg, whatsappLink |-> <<"L">>, createdAt |-> SeedTime],
      [id |-> "prod-2", title |-> TitleB, price |-> <<"5">>, description |-> <<"d">>,
       image |-> LocalImg, whatsappLink |-> <<"L">>, createdAt |-> SeedTime] }
MigCourse ==
    [id |-> "course-1", title |-> TitleA, date |-> Undef, comments |-> NoNum,
     description |-> Undef, content |-> Undef, image |-> Undef, createdAt |-> Undef]
SeqsUpTo(S, n) == UNION {[1..k -> S] : k \in 0..n}

\* course.comments || 0
NumOrZero(v) == IF v = NoNum THEN 0 ELSE v

\* the objects handed to upsert
MigUserRow(user, now) ==
    [id |-> user.id, username |-> user.username, password |-> user.password,
     role |-> OrElse(user.role, <<"admin">>),
     createdAt |-> OrElse(user.createdAt, now)]
MigProductRow(product, now) ==
    [id |-> product.id, title |-> product.title,
     price |-> OrElse(product.price, <<>>),
     description |-> OrElse(product.description, <<>>),
     image |-> OrElse(product.image, <<>>),
     whatsappLink |-> OrElse(product.whatsappLink, <<>>),
     createdAt |-> OrElse(product.createdAt, now)]
MigCourseRow(course, now) ==
    [id |-> course.id, title |-> course.title,
     date |-> OrElse(course.date, <<>>),
     comments |-> NumOrZero(course.comments),
     description |-> OrElse(course.description, <<>>),
     content |-> OrElse(course.content, <<>>),
     image |-> OrElse(course.image, <<>>),
     createdAt |-> OrElse(course.createdAt, now)]
MigRow(c, rec, now) ==
    CASE c = "users" -> MigUserRow(rec, now)
      [] c = "products" -> MigProductRow(rec, now)
      [] c = "courses" -> MigCourseRow(rec, now)
\* the columns an inserted row has beyond those upsert is given
ExtraColumns(c) == IF c = "products" THEN [updatedAt |-> Undef] ELSE [none |-> Undef]

\* from(c).upsert([row]): the row with the id takes the given columns, or the
\* row is added
Upsert(table, row, extra) ==
    LET i == FindIndex(table, row.id)
        old == IF i = 0 THEN extra ELSE table[i]
        new == [f \in DOMAIN row \cup DOMAIN extra |->
                  IF f \in DOMAIN row THEN row[f] ELSE old[f]]
    IN  IF i = 0 THEN Append(table, new) ELSE [table EXCEPT ![i] = new]

Table(c) ==
    CASE c = "users" -> users [] c = "products" -> products [] c = "courses" -> courses
SetTable(c, new) ==
    CASE c = "users" -> users' = new /\ UNCHANGED <<products, courses>>
      [] c = "products" -> products' = new /\ UNCHANGED <<users, courses>>
      [] c = "courses" -> courses' = new /\ UNCHANGED <<users, products>>
NextPhase(c) ==
    CASE c = "users" -> "products" [] c = "products" -> "courses"
      [] c = "courses" -> "banner"
FileOf(c) == mig.file[c]

\* the process starts: process.exit(1) unless both settings are there, else
\* migrate() is called
MigStart ==
    /\ mig.phase \in {"idle", "done"}
    /\ mig.run < MaxRuns
    /\ mig' = IF ~useSupabase
              THEN [mig EXCEPT !.phase = "exit", !.exitCode = 1, !.run = @ + 1]
              ELSE [mig EXCEPT !.phase = "users", !.i = 1, !.run = @ + 1,
                               !.banner = FALSE, !.loopFailed = FALSE]
    /\ UNCHANGED <<useSupabase, inflight, users, store, session, req, resp, seen>>

\* readFileSync or JSON.parse throws: the block's catch logs and the next block runs
MigNoFile(c) ==
    /\ mig.phase = c
    /\ ~FileOf(c).present
    /\ mig' = [mig EXCEPT !.phase = NextPhase(c), !.i = 1, !.loopFailed = FALSE,
                          !.swallowed = @ \cup {c}]
    /\ UNCHANGED <<useSupabase, inflight, users, store, session, req, resp, seen>>

\* one turn of the for loop: await supabase.from(c).upsert([...]). The call
\* resolves with the row written ("ok"), resolves with {error}, which the loop
\* does not read ("error"), or rejects, which the block's catch receives ("throw").
MigUpsert(c) ==
    /\ mig.phase = c
    /\ FileOf(c).present
    /\ mig.i <= Len(FileOf(c).rows)
    /\ \E outcome \in {"ok", "error", "throw"}, now \in MigTimes :
         /\ IF outcome = "ok"
            THEN SetTable(c, Upsert(Table(c), MigRow(c, FileOf(c).rows[mig.i], now),
                                    ExtraColumns(c)))
            ELSE UNCHANGED <<users, products, courses>>
         /\ mig' = [mig EXCEPT
                      !.phase = IF outcome = "throw" THEN NextPhase(c) ELSE @,
                      !.i = IF outcome = "throw" THEN 1 ELSE @ + 1,
                      !.failed = @ \/ outcome # "ok",
                      !.loopFailed = IF outcome = "throw" THEN FALSE
                                     ELSE @ \/ outcome = "error",
                      !.continued = @ \/ mig.loopFailed,
                      !.swallowed = IF outcome = "throw" THEN @ \cup {c} ELSE @]
    /\ UNCHANGED <<useSupabase, inflight, files, session, req, resp, seen>>

\* the loop is over: the count is logged and the next block runs
MigBlockEnd(c) ==
    /\ mig.phase = c
    /\ FileOf(c).present
    /\ mig.i > Len(FileOf(c).rows)
    /\ mig' = [mig EXCEPT !.phase = NextPhase(c), !.i = 1, !.loopFailed = FALSE]
    /\ UNCHANGED <<useSupabase, inflight, users, store, session, req, resp, seen>>

\* console.log('Migration complete!'); migrate() resolves, so the handler given
\* to catch() does not run and the process ends with status 0
MigFinish ==
    /\ mig.phase = "banner"
    /\ mig' = [mig EXCEPT !.phase = "done", !.banner = TRUE, !.exitCode = 0,
                          !.after = IF mig.run = 1
                                    THEN <<users, products, courses>> ELSE @]
    /\ UNCHANGED <<useSupabase, inflight, users, store, session, req, resp, seen>>

\* the local files and the remote collections a run can find
InitMig ==
    /\ useSupabase \in BOOLEAN
    /\ users = <<>>
    /\ products \in {<<>>, <<SeedProduct>>}
    /\ courses = <<>>
    /\ files = {}
    /\ session = [s \in Sessions |-> EmptySession]
    /\ req = Request("none", NoVal, NoVal, NoVal, FALSE)
    /\ resp = Reply(0, FALSE, <<>>, NoVal, {})
    /\ seen = [authed |-> FALSE, hit |-> 0, image |-> Undef]
    /\ inflight = NoneInFlight
    /\ \E uf \in {Missing, File(<<MigUser>>)},
          pf \in {Missing} \cup {File(rows) : rows \in SeqsUpTo(MigProducts, MaxFileLen)},
          cf \in {Missing, File(<<MigCourse>>)} :
         mig = [phase |-> "idle", i |-> 1, run |-> 0,
                file |-> [users |-> uf, products |-> pf, courses |-> cf],
                banner |-> FALSE, exitCode |-> NoNum, topLevelCaught |-> FALSE,
                failed |-> FALSE, loopFailed |-> FALSE, continued |-> FALSE,
                swallowed |-> {}, after |-> <<>>]

NextMig ==
    \/ MigStart
    \/ \E c \in Range(Colls) : MigNoFile(c)
    \/ \E c \in Range(Colls) : MigUpsert(c)
    \/ \E c \in Range(Colls) : MigBlockEnd(c)
    \/ MigFinish

SpecMig == InitMig /\ [][NextMig]_vars

(***************************************************************************)
(* Claims about the server                                                 *)
(***************************************************************************)
MutatingRoutes ==
    {"POST /products", "PUT /products/:id", "DELETE /products/:id",
     "POST /courses", "DELETE /courses/:id"}
Matches(cred) ==
    {i \in 1..Len(users) :
       users[i].username = cred.username /\ users[i].password = cred.password}
\* the records of list other than those with the id, in their order
Others(list, id) == SelectSeq(list, LAMBDA r : r.id # id)

\* C1: in both storage modes a mutating request (POST /products, PUT
\* /products/:id, DELETE /products/:id, POST /courses, DELETE /courses/:id) on a
\* session with no user id is answered 401 and leaves the products, the courses
\* and the stored image files as they were.
C1_UnauthorizedTouchesNothing ==
    [][ (req'.route \in MutatingRoutes /\ session[req'.sess].userId = NoVal)
          => (resp'.status = 401 /\ UNCHANGED store) ]_vars
\* an unauthenticated DELETE of a product the store holds was answered 401
C1_Witness ==
    /\ req.route = "DELETE /products/:id"
    /\ resp.status = 401
    /\ WithId(products, req.id) # {}

\* C2: a login with the username and password of a user record is answered
\* with success and leaves the session carrying that record's username, which
\* GET /auth/status then reports.
C2_ValidLoginEstablishesSession ==
    (req.route = "POST /login" /\ Matches(req.body) # {})
      => (resp.status = 200 /\ session[req.sess].username = req.body.username)
\* C2 for the logins whose lookup of the user meets no store error (it holds of
\* them): such a login with the username and password of a user record sets the
\* session to that record's id and username, and from then on GET /auth/status
\* reports authenticated: true with that username for as long as the session is
\* kept (no route but login and logout changes a session); a login that matches
\* no user record is answered 401 and leaves the session as it was.
C2_HoldsWhenLookupSucceeds ==
    [][ /\ (req'.route = "POST /login" /\ Matches(req'.body) # {}
              /\ resp'.failed = {})
            => /\ resp'.status = 200
               /\ \E i \in Matches(req'.body) :
                    session'[req'.sess] =
                      [userId |-> users[i].id, username |-> users[i].username]
        /\ (req'.route = "POST /login" /\ Matches(req'.body) = {})
            => (resp'.status = 401 /\ session' = session)
        /\ (req'.route = "GET /auth/status")
            => resp'.data =
                 [authenticated |-> session[req'.sess].userId # NoVal,
                  username |-> session[req'.sess].username]
        /\ (req'.route \notin {"POST /login", "POST /logout"})
            => session' = session ]_vars
\* GET /auth/status reported the second user, who had logged in
C2_Witness ==
    /\ req.route = "GET /auth/status"
    /\ resp.data = [authenticated |-> TRUE, username |-> "staff"]

\* C3: in both storage modes an authenticated PUT /products/:id, DELETE
\* /products/:id or DELETE /courses/:id whose id matches no record is answered
\* 404 with a JSON error body, never with success (stated for the requests
\* during which no store call failed).
C3_MissingRecordIs404 ==
    (/\ req.route \in {"PUT /products/:id", "DELETE /products/:id",
                       "DELETE /courses/:id"}
     /\ seen.authed /\ seen.hit = 0 /\ resp.failed = {})
      => (resp.status = 404 /\ ~resp.success /\ resp.error # <<>>)

\* C8: in remote mode a request during which a store call (select, insert,
\* update, delete, upload, remove) failed is answered 500 with the store's raw
\* error message, never with success, 401 or 404.
C8_StoreErrorIs500 ==
    (useSupabase /\ resp.failed # {})
      => (resp.status = 500 /\ \E call \in resp.failed : resp.error = RawMessage(call))

\* C10: POST /logout empties the session whether or not it was authenticated;
\* on an emptied session GET /auth/status reports authenticated: false and
\* every mutating route answers 401, and the session stays empty until a login
\* is answered with success.
C10_LogoutDestroysSession ==
    [][ /\ (req'.route = "POST /logout")
            => (resp'.status = 200 /\ session'[req'.sess] = EmptySession)
        /\ (session[req'.sess] = EmptySession /\ req'.route = "GET /auth/status")
            => resp'.data.authenticated = FALSE
        /\ (session[req'.sess] = EmptySession /\ req'.route \in MutatingRoutes)
            => resp'.status = 401
        /\ (session[req'.sess] = EmptySession
              /\ ~(req'.route = "POST /login" /\ resp'.status = 200))
            => session'[req'.sess] = EmptySession ]_vars
\* a logged-in session was logged out
C10_Witness ==
    /\ req.route = "POST /logout"
    /\ seen.authed
    /\ session[req.sess] = EmptySession

C7_PutFrame ==
    [][ (req'.route = "PUT /products/:id" /\ resp'.status = 200) =>
        LET i == FindIndex(products, req'.id)
            b == req'.body
        IN  /\ i # 0
            /\ Len(products') = Len(products)
            /\ \A j \in 1..Len(products) : j # i => products'[j] = products[j]
            /\ products'[i].id = products[i].id
            /\ products'[i].createdAt = products[i].createdAt
            /\ b.title # Undef => products'[i].title = b.title
            /\ b.price # Undef => products'[i].price = b.price
            /\ b.description # Undef => products'[i].description = b.description
            /\ b.whatsappLink # Undef => products'[i].whatsappLink = b.whatsappLink
            /\ ~req'.file => products'[i].image = products[i].image ]_vars
\* a PUT with no file rewrote one of two records and kept its image reference
C7_Witness ==
    /\ req.route = "PUT /products/:id" /\ resp.status = 200
    /\ ~req.file /\ req.body.price # Undef
    /\ Len(products) = 2
    /\ products[FindIndex(products, req.id)].image = LocalImg
    /\ products[FindIndex(products, req.id)].price = req.body.price

\* C9: in POST /products, PUT /products/:id and POST /courses, in both storage
\* modes, an optional field the request omits is stored as the empty string,
\* except the contact link, stored as the WhatsApp link with the URL-encoded
\* title, and the comment count, stored as 0.
C9_OmittedStoredEmpty ==
    /\ (req.route \in {"POST /products", "PUT /products/:id"} /\ resp.status = 200)
        => LET r == IF req.route = "POST /products" THEN products[Len(products)]
                    ELSE products[FindIndex(products, req.id)]
               b == req.body
           IN  /\ b.price = Undef => r.price = <<>>
               /\ b.description = Undef => r.description = <<>>
               /\ b.whatsappLink = Undef => r.whatsappLink = DefaultLink(b.title)
    /\ (req.route = "POST /courses" /\ resp.status = 200)
        => LET r == courses[Len(courses)]
               b == req.body
           IN  /\ b.date = Undef => r.date = <<>>
               /\ b.description = Undef => r.description = <<>>
               /\ b.content = Undef => r.content = <<>>
               /\ b.comments = Undef => r.comments = 0

Succeeded == {r \in Reqs : inflight[r].phase = "answered" /\ inflight[r].status = 200}
Posted == {r \in Succeeded : inflight[r].route = "POST /products"}
Count(list, rec) == Cardinality({i \in 1..Len(list) : list[i] = rec})
Reflected(r) ==
    IF r \in Posted
    THEN Count(products, inflight[r].product)
           >= Cardinality({q \in Posted : inflight[q].product = inflight[r].product})
    ELSE WithId(products, inflight[r].id) = {}
\* a creation and a deletion of the same id undo one another in one of the two
\* orders, which loses no update
SameId(r, q) ==
    \/ r \in Posted /\ q \notin Posted /\ inflight[r].product.id = inflight[q].id
    \/ q \in Posted /\ r \notin Posted /\ inflight[q].product.id = inflight[r].id
LostUpdate ==
    \E r \in Succeeded, q \in Succeeded :
      r # q /\ ~SameId(r, q) /\ ~(Reflected(r) /\ Reflected(q))
\* two POST /products, both of which arrived while products.json held nothing,
\* were both answered with success
BothPostedFromEmpty ==
    /\ Posted = Reqs
    /\ \A r \in Reqs : inflight[r].early = <<>>

Coll(k) == Colls[k]
MigIds(c) == {FileOf(c).rows[i].id : i \in 1..Len(FileOf(c).rows)}
\* the record of the file that writes the row with the id last
LastWith(c, id) ==
    LET rows == FileOf(c).rows
        at == {i \in 1..Len(rows) : rows[i].id = id}
    IN  rows[CHOOSE i \in at : \A j \in at : j <= i]
\* the table without the creation timestamps the script defaulted
Masked(c, table) ==
    [i \in 1..Len(table) |->
       IF table[i].id \in MigIds(c) /\ LastWith(c, table[i].id).createdAt = Undef
       THEN [table[i] EXCEPT !.createdAt = <<"defaulted">>]
       ELSE table[i]]
OnePerIdAndAsAfterFirst ==
    \A k \in 1..Len(Colls) :
      /\ \A id \in MigIds(Coll(k)) :
           Cardinality({i \in 1..Len(Table(Coll(k))) : Table(Coll(k))[i].id = id}) = 1
      /\ Masked(Coll(k), Table(Coll(k))) = Masked(Coll(k), mig.after[k])

\* C4: after the second run over the same local files every remote collection
\* holds exactly one record per id of its file, and equals, but for the
\* defaulted creation timestamps, what the first run left.
C4_SecondRunChangesNothing ==
    (mig.phase = "done" /\ mig.run >= 2) => OnePerIdAndAsAfterFirst
\* C4 for the runs all of whose upserts succeeded (it holds of them).
C4_HoldsWhenUpsertsSucceed ==
    (mig.phase = "done" /\ mig.run >= 2 /\ ~mig.failed) => OnePerIdAndAsAfterFirst
\* two runs without a failure over a products file that holds one id twice, the
\* later record with no createdAt: the second run only moved that timestamp
C4_Witness ==
    /\ mig.phase = "done" /\ mig.run = 2 /\ ~mig.failed
    /\ Len(mig.file.products.rows) = 2
    /\ mig.file.products.rows[1].id = mig.file.products.rows[2].id
    /\ mig.file.products.rows[1] # mig.file.products.rows[2]
    /\ products # mig.after[2]

\* C5: when an upsert fails, the loop over that collection makes no further
\* upsert, and the run ends in the top-level error handler with a non-zero exit
\* status and without the success banner.
C5_UpsertFailureHaltsAndExitsNonZero ==
    /\ ~mig.continued
    /\ (mig.phase = "done" /\ mig.failed)
         => (~mig.banner /\ mig.exitCode # 0 /\ mig.topLevelCaught)

====
